---- MODULE Spec2Model ----
(***************************************************************************)
(* InMemoryDatabase (src/main.py): a key/field store with per-key advisory *)
(* locks, FIFO waiter queues and caller-gated mutation.                    *)
(*                                                                         *)
(* The four dictionaries of the class are modelled as functions whose      *)
(* DOMAIN is the set of keys present.  Every method is one action; it      *)
(* leaves the method's name in `op` and its return value in `ret`.         *)
(***************************************************************************)
EXTENDS Integers, Sequences, FiniteSets, TLC

VARIABLES records, modification_count, locks, lock_queues,
          op, ret, callers, tracked, hist, threads

store == <<records, modification_count, locks, lock_queues>>
vars == <<records, modification_count, locks, lock_queues,
          op, ret, callers, tracked, hist, threads>>

(***************************************************************************)
(* Input sets and bounds.                                                  *)
(***************************************************************************)
\* Keys in ascending lexicographic order (Python's str order).
KeySeq == <<"k1", "k2">>
Keys == {KeySeq[i] : i \in 1..Len(KeySeq)}
Fields == {"f", "g"}
Callers == {"A", "B", "C"}
Deltas == {1}
\* Value every seeded field starts with.
SeedValue == 2
\* Cap on a key's modification count (Python integers are unbounded).
MaxCount == 2
\* Largest n passed to top_n_keys.
MaxN == 3
\* Number of calls remembered from the construction of the store.
MaxHist == 2

(***************************************************************************)
(* Dictionaries and return values.                                         *)
(***************************************************************************)
EmptyMap == [x \in {} |-> 0]
Del(m, k) == [x \in (DOMAIN m) \ {k} |-> m[x]]
Put(m, k, v) == [x \in (DOMAIN m) \cup {k} |-> IF x = k THEN v ELSE m[x]]
Range(q) == {q[i] : i \in 1..Len(q)}

None == [kind |-> "None"]
IntRet(n) == [kind |-> "int", val |-> n]
StrRet(s) == [kind |-> "str", val |-> s]
BoolRet(b) == [kind |-> "bool", val |-> b]
ListRet(l) == [kind |-> "list", val |-> l]

Call(name, key, field, value, caller_id) ==
    [name |-> name, key |-> key, field |-> field, value |-> value, caller_id |-> caller_id]

\* While `tracked`, hist is the complete list of the calls made since the
\* store was constructed; tracking stops after MaxHist calls.
Record(c) ==
    /\ op' = c.name
    /\ IF tracked /\ Len(hist) < MaxHist
       THEN hist' = Append(hist, c) /\ tracked' = tracked
       ELSE hist' = <<>> /\ tracked' = FALSE
    /\ UNCHANGED <<callers, threads>>

(***************************************************************************)
(* __init__                                                                *)
(***************************************************************************)
Init ==
    /\ records = EmptyMap
    /\ modification_count = EmptyMap
    /\ locks = EmptyMap
    /\ lock_queues = EmptyMap
    /\ op = "__init__"
    /\ ret = None
    /\ callers = Callers
    /\ tracked = TRUE
    /\ hist = <<>>
    /\ threads = EmptyMap

(***************************************************************************)
(* inc, delete: disabled without a caller id.                              *)
(***************************************************************************)
inc(key, field, value) ==
    /\ ret' = None
    /\ UNCHANGED store
    /\ Record(Call("inc", key, field, value, "-"))

delete(key, field) ==
    /\ ret' = None
    /\ UNCHANGED store
    /\ Record(Call("delete", key, field, 0, "-"))

(***************************************************************************)
(* get                                                                     *)
(***************************************************************************)
\* get of a store that hides the fields of a locked key.
get_unless_locked(key, field) ==
    /\ ret' = IF key \in DOMAIN records /\ field \in DOMAIN records[key]
                 /\ key \notin DOMAIN locks
              THEN IntRet(records[key][field])
              ELSE None
    /\ UNCHANGED store
    /\ Record(Call("get", key, field, 0, "-"))

get(key, field) ==
    /\ ret' = IF key \in DOMAIN records /\ field \in DOMAIN records[key]
              THEN IntRet(records[key][field])
              ELSE None
    /\ UNCHANGED store
    /\ Record(Call("get", key, field, 0, "-"))

(***************************************************************************)
(* Gated mutation.                                                         *)
(***************************************************************************)
\* HoldsLock without the comparison of the owner with the caller.
HoldsLockAnyOwner(key, caller_id) == key \in DOMAIN locks

\* The guard of lines 24 and 42, negated: the caller holds the key's lock.
HoldsLock(key, caller_id) == key \in DOMAIN locks /\ locks[key] = caller_id

\* NewValue of a set that overwrites an existing field.
NewValueOverwrite(rec, field, value) == value

\* Lines 32-35: the field's new value.
NewValue(rec, field, value) ==
    IF field \in DOMAIN rec THEN rec[field] + value ELSE value

\* Touch of a mutation that is not counted.
TouchNot(mc, key) == mc

\* Lines 37 and 47: self.modification_count[key] += 1.
Touch(mc, key) == Put(mc, key, mc[key] + 1)

set_or_inc_by_caller(key, field, value, caller_id) ==
    /\ Record(Call("set_or_inc_by_caller", key, field, value, caller_id))
    /\ IF ~HoldsLock(key, caller_id)
       THEN /\ ret' = None
            /\ UNCHANGED store
       ELSE LET recs1 == IF key \notin DOMAIN records
                         THEN Put(records, key, EmptyMap) ELSE records
                mc1 == IF key \notin DOMAIN records
                       THEN Put(modification_count, key, 0) ELSE modification_count
                v == NewValue(recs1[key], field, value)
            IN /\ mc1[key] < MaxCount
               /\ records' = Put(recs1, key, Put(recs1[key], field, v))
               /\ modification_count' = Touch(mc1, key)
               /\ ret' = IntRet(v)
               /\ UNCHANGED <<locks, lock_queues>>

\* DropQueue of a delete that leaves the waiter queue behind.
KeepQueue(lq, key) == lq

\* Line 54: self.lock_queues.pop(key, None).
DropQueue(lq, key) == Del(lq, key)

\* IsEmptied of a delete that never destroys the Record.
IsEmptiedNever(rec) == FALSE

\* Line 50: not self.records[key].
IsEmptied(rec) == DOMAIN rec = {}

\* ReleaseLock of a delete that leaves the owner in place.
KeepLock(lk, key) == lk

\* Line 53: del self.locks[key].
ReleaseLock(lk, key) == Del(lk, key)

delete_by_caller(key, field, caller_id) ==
    /\ Record(Call("delete_by_caller", key, field, 0, caller_id))
    /\ IF ~HoldsLock(key, caller_id)
       THEN /\ ret' = BoolRet(FALSE)
            /\ UNCHANGED store
       ELSE IF key \in DOMAIN records /\ field \in DOMAIN records[key]
       THEN LET rec1 == Del(records[key], field)
            IN /\ ret' = BoolRet(TRUE)
               /\ IF IsEmptied(rec1)
                  THEN /\ records' = Del(records, key)
                       /\ modification_count' = Del(modification_count, key)
                       /\ locks' = ReleaseLock(locks, key)
                       /\ lock_queues' = DropQueue(lock_queues, key)
                  ELSE /\ modification_count[key] < MaxCount
                       /\ records' = Put(records, key, rec1)
                       /\ modification_count' = Touch(modification_count, key)
                       /\ UNCHANGED <<locks, lock_queues>>
       ELSE /\ ret' = BoolRet(FALSE)
            /\ UNCHANGED store

(***************************************************************************)
(* lock, unlock                                                            *)
(***************************************************************************)
\* KeyExists without the check of line 60.
KeyAlwaysExists(key) == TRUE

\* Line 60, negated: the key has a Record.
KeyExists(key) == key \in DOMAIN records

\* Acquire as self.locks = {key: caller_id}, which forgets the other keys.
AcquireReplacing(lk, key, caller_id) == Put(EmptyMap, key, caller_id)

\* Line 65: self.locks[key] = caller_id.
Acquire(lk, key, caller_id) == Put(lk, key, caller_id)

\* Enqueue without the membership test of line 76.
EnqueueNoDedup(q, caller_id) == Append(q, caller_id)

\* Lines 76-77: append unless already queued.
Enqueue(q, caller_id) == IF caller_id \in Range(q) THEN q ELSE Append(q, caller_id)

\* IsOwner of a lock that does not recognise its own holder.
IsOwnerNever(key, caller_id) == FALSE

\* Line 69: self.locks[key] == caller_id.
IsOwner(key, caller_id) == locks[key] = caller_id

lock(key, caller_id) ==
    /\ Record(Call("lock", key, "-", 0, caller_id))
    /\ UNCHANGED <<records, modification_count>>
    /\ IF ~KeyExists(key)
       THEN /\ ret' = StrRet("invalid_request")
            /\ UNCHANGED <<locks, lock_queues>>
       ELSE IF key \notin DOMAIN locks
       THEN /\ locks' = Acquire(locks, key, caller_id)
            /\ ret' = StrRet("acquired")
            /\ UNCHANGED lock_queues
       ELSE IF IsOwner(key, caller_id)
       THEN /\ ret' = None
            /\ UNCHANGED <<locks, lock_queues>>
       ELSE LET q == IF key \in DOMAIN lock_queues THEN lock_queues[key] ELSE <<>>
            IN /\ lock_queues' = Put(lock_queues, key, Enqueue(q, caller_id))
               /\ ret' = StrRet("wait")
               /\ UNCHANGED locks

\* HasWaiter of an unlock that never looks at the queue.
HasWaiterNever(key) == FALSE

\* Line 90: the key has a non-empty waiter queue.
HasWaiter(key) == key \in DOMAIN lock_queues /\ lock_queues[key] # <<>>

\* Pop0 as list.pop(), which takes the newest waiter.
PopLast(q) == [next_caller |-> q[Len(q)], rest |-> SubSeq(q, 1, Len(q) - 1)]

\* Pop0 as q[0], which reads the head and leaves it queued.
PopPeek(q) == [next_caller |-> Head(q), rest |-> q]

\* Line 91: list.pop(0), the element removed and the list left.
Pop0(q) == [next_caller |-> Head(q), rest |-> Tail(q)]

unlock(key) ==
    /\ Record(Call("unlock", key, "-", 0, "-"))
    /\ UNCHANGED <<records, modification_count>>
    /\ IF key \notin DOMAIN locks
       THEN /\ ret' = None
            /\ UNCHANGED <<locks, lock_queues>>
       ELSE IF HasWaiter(key)
       THEN LET p == Pop0(lock_queues[key])
            IN /\ locks' = Put(Del(locks, key), key, p.next_caller)
               /\ lock_queues' = Put(lock_queues, key, p.rest)
               /\ ret' = StrRet("released")
       ELSE /\ locks' = Del(locks, key)
            /\ ret' = StrRet("released")
            /\ UNCHANGED lock_queues

(***************************************************************************)
(* top_n_keys                                                              *)
(***************************************************************************)
KeyRank(k) == CHOOSE i \in 1..Len(KeySeq) : KeySeq[i] = k

\* Before with the counts compared ascending.
BeforeAscending(mc, a, b) ==
    \/ mc[a] < mc[b]
    \/ mc[a] = mc[b] /\ KeyRank(a) < KeyRank(b)

\* The sort key of line 100, (-count, key), compared as Python compares tuples.
Before(mc, a, b) ==
    \/ -mc[a] < -mc[b]
    \/ -mc[a] = -mc[b] /\ KeyRank(a) < KeyRank(b)

RECURSIVE SortedKeys(_, _)
SortedKeys(mc, S) ==
    IF S = {} THEN <<>>
    ELSE LET m == CHOOSE a \in S : \A b \in S \ {a} : Before(mc, a, b)
         IN <<m>> \o SortedKeys(mc, S \ {m})

\* Line 103: "<key>(<count>)".
Format(key, count) == key \o "(" \o ToString(count) \o ")"

\* Line 106: result[:n] for n >= 0.
Slice(l, n) == SubSeq(l, 1, IF n < Len(l) THEN n ELSE Len(l))

TopN(mc, n) ==
    LET sorted_keys == SortedKeys(mc, DOMAIN mc)
        result == [i \in 1..Len(sorted_keys) |->
                       Format(sorted_keys[i], mc[sorted_keys[i]])]
    IN Slice(result, n)

top_n_keys(n) ==
    /\ ret' = ListRet(TopN(modification_count, n))
    /\ UNCHANGED store
    /\ Record(Call("top_n_keys", "-", "-", n, "-"))

(***************************************************************************)
(* The store driven by callers that issue one call at a time.              *)
(***************************************************************************)
Next ==
    \/ \E k \in Keys, f \in Fields, d \in Deltas : inc(k, f, d)
    \/ \E k \in Keys, f \in Fields : delete(k, f)
    \/ \E k \in Keys, f \in Fields : get(k, f)
    \/ \E k \in Keys, f \in Fields, d \in Deltas, c \in callers :
           set_or_inc_by_caller(k, f, d, c)
    \/ \E k \in Keys, f \in Fields, c \in callers : delete_by_caller(k, f, c)
    \/ \E k \in Keys, c \in callers : lock(k, c)
    \/ \E k \in Keys : unlock(k)
    \/ \E n \in 0..MaxN : top_n_keys(n)

Spec == Init /\ [][Next]_vars

(***************************************************************************)
(* The same callers on a store that already holds records.  No sequence of *)
(* calls creates a record in a store that started empty (RecordsStayEmpty  *)
(* below), so the stores the per-operation contracts are about are seeded: *)
(* every key is absent or has some fields and a modification count, and no *)
(* key is locked yet.  Every lock and waiter queue is then built by the    *)
(* calls themselves.  A store of two seeded keys is driven by one caller,  *)
(* a store of at most one seeded key by all three: the waiter queues of    *)
(* three callers on two keys at once multiply the states without adding a  *)
(* case, the keys sharing nothing but the dictionaries.                    *)
(***************************************************************************)
SeedRecords ==
    {[f \in F |-> SeedValue] : F \in (SUBSET Fields) \ {{}}}

SeedCallers(D) == IF D = Keys THEN {"A"} ELSE Callers

InitStore ==
    /\ \E D \in SUBSET Keys :
           /\ records \in [D -> SeedRecords]
           /\ modification_count = [k \in D |-> 1]
           /\ callers = SeedCallers(D)
    /\ locks = EmptyMap
    /\ lock_queues = EmptyMap
    /\ op = "__init__"
    /\ ret = None
    /\ tracked = FALSE
    /\ hist = <<>>
    /\ threads = EmptyMap

SpecStore == InitStore /\ [][Next]_vars

(***************************************************************************)
(* Two threads inside lock() at once.  The class takes no mutex, so the    *)
(* statements of one call interleave with those of the other; each action  *)
(* below is one statement of lock(), named by its line in src/main.py.     *)
(***************************************************************************)
Threads == {1, 2}

Goto(t, line) == threads' = [threads EXCEPT ![t].pc = line]
Return(t, value) == threads' = [threads EXCEPT ![t].pc = "done", ![t].ret = value]
At(t, line) == t \in DOMAIN threads /\ threads[t].pc = line

\* if key not in self.records: return "invalid_request"
lock_60(t) ==
    /\ At(t, "60")
    /\ IF threads[t].key \notin DOMAIN records
       THEN Return(t, StrRet("invalid_request"))
       ELSE Goto(t, "64")
    /\ UNCHANGED <<store, op, ret, callers, tracked, hist>>

\* if key not in self.locks:
lock_64(t) ==
    /\ At(t, "64")
    /\ Goto(t, IF threads[t].key \notin DOMAIN locks THEN "65" ELSE "69")
    /\ UNCHANGED <<store, op, ret, callers, tracked, hist>>

\* self.locks[key] = caller_id; return "acquired"
lock_65(t) ==
    /\ At(t, "65")
    /\ locks' = Put(locks, threads[t].key, threads[t].caller_id)
    /\ Return(t, StrRet("acquired"))
    /\ UNCHANGED <<records, modification_count, lock_queues, op, ret, callers, tracked, hist>>

\* if self.locks[key] == caller_id: return None
lock_69(t) ==
    /\ At(t, "69")
    /\ IF locks[threads[t].key] = threads[t].caller_id
       THEN Return(t, None)
       ELSE Goto(t, "73")
    /\ UNCHANGED <<store, op, ret, callers, tracked, hist>>

\* if key not in self.lock_queues:
lock_73(t) ==
    /\ At(t, "73")
    /\ Goto(t, IF threads[t].key \notin DOMAIN lock_queues THEN "74" ELSE "76")
    /\ UNCHANGED <<store, op, ret, callers, tracked, hist>>

\* self.lock_queues[key] = []
lock_74(t) ==
    /\ At(t, "74")
    /\ lock_queues' = Put(lock_queues, threads[t].key, <<>>)
    /\ Goto(t, "76")
    /\ UNCHANGED <<records, modification_count, locks, op, ret, callers, tracked, hist>>

\* if caller_id not in self.lock_queues[key]:
lock_76(t) ==
    /\ At(t, "76")
    /\ Goto(t, IF threads[t].caller_id \notin Range(lock_queues[threads[t].key])
               THEN "77" ELSE "79")
    /\ UNCHANGED <<store, op, ret, callers, tracked, hist>>

\* self.lock_queues[key].append(caller_id)
lock_77(t) ==
    /\ At(t, "77")
    /\ lock_queues' = Put(lock_queues, threads[t].key,
                          Append(lock_queues[threads[t].key], threads[t].caller_id))
    /\ Goto(t, "79")
    /\ UNCHANGED <<records, modification_count, locks, op, ret, callers, tracked, hist>>

\* return "wait"
lock_79(t) ==
    /\ At(t, "79")
    /\ Return(t, StrRet("wait"))
    /\ UNCHANGED <<store, op, ret, callers, tracked, hist>>

NextConc ==
    \E t \in Threads :
        \/ lock_60(t)
        \/ lock_64(t)
        \/ lock_65(t)
        \/ lock_69(t)
        \/ lock_73(t)
        \/ lock_74(t)
        \/ lock_76(t)
        \/ lock_77(t)
        \/ lock_79(t)

\* A seeded store, nothing locked, and two callers each entering lock().
InitConc ==
    /\ \E D \in SUBSET Keys :
           /\ records \in [D -> SeedRecords]
           /\ modification_count = [k \in D |-> 1]
    /\ locks = EmptyMap
    /\ lock_queues = EmptyMap
    /\ op = "__init__"
    /\ ret = None
    /\ callers = Callers
    /\ tracked = FALSE
    /\ hist = <<>>
    /\ \E k1 \in Keys, k2 \in Keys, c1 \in Callers, c2 \in Callers :
           /\ c1 # c2
           /\ threads = [t \in Threads |->
                  [pc |-> "60", key |-> IF t = 1 THEN k1 ELSE k2,
                   caller_id |-> IF t = 1 THEN c1 ELSE c2, ret |-> None]]

SpecConc == InitConc /\ [][NextConc]_vars

(***************************************************************************)
(* Properties.  A contract of one method is stated of every step that is   *)
(* a call of that method, in terms of the dictionaries alone.              *)
(***************************************************************************)
NoOwner == "-"
Owner(lk, k) == IF k \in DOMAIN lk THEN lk[k] ELSE NoOwner
Waiters(lq, k) == IF k \in DOMAIN lq THEN lq[k] ELSE <<>>
HasRecord(recs, k) == k \in DOMAIN recs
IsPrefix(p, q) == Len(p) <= Len(q) /\ \A i \in 1..Len(p) : q[i] = p[i]

\* C1: a gated mutation by a caller that does not own the key's lock (the key
\* is unlocked or locked by someone else) is refused: set_or_inc_by_caller
\* returns None, delete_by_caller returns False, and the four dictionaries
\* are left as they were.
GatedMutationRequiresOwnership ==
    [][\A k \in Keys, f \in Fields, c \in Callers :
          (k \notin DOMAIN locks \/ locks[k] # c) =>
              /\ \A d \in Deltas :
                     set_or_inc_by_caller(k, f, d, c) =>
                         (ret' = None /\ UNCHANGED store)
              /\ delete_by_caller(k, f, c) =>
                     (ret' = BoolRet(FALSE) /\ UNCHANGED store)]_vars

\* A delete_by_caller was refused for want of the lock: the only key is
\* locked, has a waiter and holds every field, so no field was missing.
RefusedMutationReached ==
    /\ op = "delete_by_caller"
    /\ ret = BoolRet(FALSE)
    /\ \E k \in Keys :
           /\ DOMAIN records = {k}
           /\ DOMAIN records[k] = Fields
           /\ k \in DOMAIN locks
           /\ Waiters(lock_queues, k) # <<>>

\* C2: first come, first served.  While a key has waiters, every unlock of
\* the key makes the head of the queue the owner and moves every other
\* waiter one place forward; any other step that keeps the key's Record
\* leaves the owner and every queued caller's position unchanged and puts
\* newcomers behind them.  So the waiter at place i becomes the owner at
\* exactly the i-th following unlock, before every caller behind it.
FifoHandoff ==
    [][\A k \in Keys :
          (k \in DOMAIN locks /\ Waiters(lock_queues, k) # <<>>) =>
              LET q == lock_queues[k]
                  q2 == Waiters(lock_queues', k)
              IN IF unlock(k)
                 THEN /\ Owner(locks', k) = q[1]
                      /\ Len(q2) = Len(q) - 1
                      /\ \A i \in 2..Len(q) : q2[i - 1] = q[i]
                 ELSE IF ~HasRecord(records', k)
                 THEN TRUE
                 ELSE /\ Owner(locks', k) = locks[k]
                      /\ IsPrefix(q, q2)]_vars

\* An unlock handed the lock to the first of two waiters; the second is
\* still queued behind it.
FifoHandoffReached ==
    /\ op = "unlock"
    /\ ret = StrRet("released")
    /\ \E k \in DOMAIN locks : Len(Waiters(lock_queues, k)) = 1

\* C3: unlock of a key that has an owner returns "released"; with a
\* non-empty queue the former head is the new owner and the queue is the
\* former queue without its head; with an empty or absent queue the key has
\* no owner afterwards.  Records and modification counts are unchanged.
UnlockHandsOff ==
    [][\A k \in Keys :
          (k \in DOMAIN locks /\ unlock(k)) =>
              /\ ret' = StrRet("released")
              /\ records' = records
              /\ modification_count' = modification_count
              /\ IF Waiters(lock_queues, k) # <<>>
                 THEN /\ Owner(locks', k) = lock_queues[k][1]
                      /\ Waiters(lock_queues', k) =
                             SubSeq(lock_queues[k], 2, Len(lock_queues[k]))
                 ELSE k \notin DOMAIN locks']_vars

\* An unlock handed the lock to the only waiter.
UnlockHandsOffReached ==
    /\ op = "unlock"
    /\ ret = StrRet("released")
    /\ \E k \in DOMAIN locks : k \in DOMAIN lock_queues /\ lock_queues[k] = <<>>

\* C4: lock of an existing key owned by another caller returns "wait", keeps
\* the owner, and leaves the queue as it was if the caller was queued and
\* with the caller appended at the tail otherwise.  Records and modification
\* counts are unchanged.
LockQueuesWaiter ==
    [][\A k \in Keys, c \in Callers :
          (HasRecord(records, k) /\ k \in DOMAIN locks /\ locks[k] # c /\ lock(k, c)) =>
              LET q == Waiters(lock_queues, k)
              IN /\ ret' = StrRet("wait")
                 /\ Owner(locks', k) = locks[k]
                 /\ Waiters(lock_queues', k) =
                        IF \E i \in 1..Len(q) : q[i] = c THEN q ELSE q \o <<c>>
                 /\ records' = records
                 /\ modification_count' = modification_count]_vars

\* Two callers wait for the same key.
TwoWaitersReached ==
    /\ op = "lock"
    /\ ret = StrRet("wait")
    /\ \E k \in DOMAIN locks : Len(Waiters(lock_queues, k)) = 2

\* C5: lock of an existing key that has no owner returns "acquired", makes
\* the caller the owner with no waiters, and leaves the records, the
\* modification counts and the lock state of every other key unchanged.
LockAcquiresFreeKey ==
    [][\A k \in Keys, c \in Callers :
          (HasRecord(records, k) /\ k \notin DOMAIN locks /\ lock(k, c)) =>
              /\ ret' = StrRet("acquired")
              /\ Owner(locks', k) = c
              /\ Waiters(lock_queues', k) = <<>>
              /\ records' = records
              /\ modification_count' = modification_count
              /\ \A j \in Keys \ {k} :
                     /\ Owner(locks', j) = Owner(locks, j)
                     /\ (j \in DOMAIN lock_queues') = (j \in DOMAIN lock_queues)
                     /\ Waiters(lock_queues', j) = Waiters(lock_queues, j)]_vars

\* A lock was acquired while the other key is locked too.
SecondLockAcquiredReached ==
    /\ op = "lock"
    /\ ret = StrRet("acquired")
    /\ DOMAIN locks = Keys

\* C6: lock of a key that has no Record returns "invalid_request" and
\* leaves the four dictionaries unchanged.
LockRejectsMissingKey ==
    [][\A k \in Keys, c \in Callers :
          (~HasRecord(records, k) /\ lock(k, c)) =>
              (ret' = StrRet("invalid_request") /\ UNCHANGED store)]_vars

\* A lock was rejected on a store that holds another key, itself locked.
LockRejectedReached ==
    /\ op = "lock"
    /\ ret = StrRet("invalid_request")
    /\ DOMAIN locks # {}

\* C9: when the owner deletes the only field of a key, the call returns
\* True and the key's Record, modification count, owner and waiter queue are
\* all gone after that one step, whatever the queue held.  On a key without
\* a Record every lock returns "invalid_request" and every unlock does
\* nothing.
LastFieldDeleteReleases ==
    [][\A k \in Keys :
          /\ \A f \in Fields, c \in Callers :
                 (/\ k \in DOMAIN locks /\ locks[k] = c
                  /\ HasRecord(records, k) /\ DOMAIN records[k] = {f}
                  /\ delete_by_caller(k, f, c)) =>
                     /\ ret' = BoolRet(TRUE)
                     /\ k \notin DOMAIN records'
                     /\ k \notin DOMAIN modification_count'
                     /\ k \notin DOMAIN locks'
                     /\ k \notin DOMAIN lock_queues'
          /\ ~HasRecord(records', k) =>
                 /\ k \notin DOMAIN locks'
                 /\ k \notin DOMAIN lock_queues'
          /\ ~HasRecord(records, k) =>
                 /\ \A x \in Callers :
                        lock(k, x) => (ret' = StrRet("invalid_request") /\ UNCHANGED store)
                 /\ unlock(k) => (ret' = None /\ UNCHANGED store)]_vars

\* The owner deleted the last field of the only key, with three callers
\* taking part.
LastFieldDeletedReached ==
    /\ op = "delete_by_caller"
    /\ ret = BoolRet(TRUE)
    /\ DOMAIN records = {}
    /\ callers = Callers

(***************************************************************************)
(* Properties of the store that starts empty (Spec).                       *)
(***************************************************************************)
\* From the constructor's state no call creates a Record: lock refuses a key
\* without a Record and set_or_inc_by_caller refuses a caller without a lock.
RecordsStayEmpty == DOMAIN records = {} /\ DOMAIN locks = {}

ScenarioCalls ==
    << Call("lock", "k1", "-", 0, "A"),
       Call("set_or_inc_by_caller", "k1", "f", 5, "A"),
       Call("get", "k1", "f", 0, "-"),
       Call("lock", "k1", "-", 0, "B"),
       Call("set_or_inc_by_caller", "k1", "f", 1, "B"),
       Call("unlock", "k1", "-", 0, "-"),
       Call("set_or_inc_by_caller", "k1", "f", 1, "B"),
       Call("delete_by_caller", "k1", "f", 0, "B"),
       Call("lock", "k1", "-", 0, "C") >>

ScenarioResults ==
    << StrRet("acquired"), IntRet(5), IntRet(5), StrRet("wait"), None,
       StrRet("released"), IntRet(6), BoolRet(TRUE), StrRet("invalid_request") >>

\* C7: the scenario walkthrough on a freshly constructed store: after its
\* first i calls, the i-th call has returned the stated result; the unlock
\* leaves "B" the owner of "k1", and the delete leaves "k1" without Record,
\* owner and queue.
ScenarioWalkthrough ==
    \A i \in 1..Len(ScenarioCalls) :
        (tracked /\ hist = SubSeq(ScenarioCalls, 1, i)) =>
            /\ ret = ScenarioResults[i]
            /\ (i = 6 => Owner(locks, "k1") = "B")
            /\ (i = 8 => /\ "k1" \notin DOMAIN records
                         /\ "k1" \notin DOMAIN locks
                         /\ "k1" \notin DOMAIN lock_queues)

\* C8: a Record is created by the first gated mutation: on a freshly
\* constructed store, once a caller has locked a key and called
\* set_or_inc_by_caller on it, the key has a Record and the field reads back
\* as the delta.
FirstGatedMutationCreatesRecord ==
    \A k \in Keys, f \in Fields, d \in Deltas, c \in Callers :
        (tracked /\ hist = << Call("lock", k, "-", 0, c),
                              Call("set_or_inc_by_caller", k, f, d, c) >>) =>
            /\ HasRecord(records, k)
            /\ f \in DOMAIN records[k]
            /\ records[k][f] = d

(***************************************************************************)
(* Properties of two concurrent lock() calls (SpecConc).                   *)
(***************************************************************************)
\* C10: when two distinct callers have both returned from lock() on the same
\* existing key, which was unlocked when they entered, exactly one of them
\* got "acquired" and is the owner, and the other got "wait" and is queued.
ConcurrentLockSerialized ==
    (/\ DOMAIN threads = Threads
     /\ \A t \in Threads : threads[t].pc = "done"
     /\ threads[1].key = threads[2].key
     /\ threads[1].caller_id # threads[2].caller_id
     /\ HasRecord(records, threads[1].key)) =>
        \E t \in Threads :
            LET u == CHOOSE x \in Threads : x # t
                k == threads[t].key
            IN /\ threads[t].ret = StrRet("acquired")
               /\ Owner(locks, k) = threads[t].caller_id
               /\ threads[u].ret = StrRet("wait")
               /\ \E i \in 1..Len(Waiters(lock_queues, k)) :
                      Waiters(lock_queues, k)[i] = threads[u].caller_id

(***************************************************************************)
(* Properties of the gated mutations, of the reads and of the maps'         *)
(* well-formedness (SpecStore).                                             *)
(***************************************************************************)
\* C11: when the owner of key k calls set_or_inc_by_caller(k, f, d, c), the
\* field's new value is its old value plus d if it existed and d otherwise,
\* the call returns that value, the key's modification count grows by
\* exactly one, the key's other fields and every other key are as before,
\* and the owners and the waiter queues are as before.
SetOrIncByHolder ==
    [][\A k \in Keys, f \in Fields, d \in Deltas, c \in Callers :
          (/\ k \in DOMAIN locks /\ locks[k] = c
           /\ HasRecord(records, k)
           /\ set_or_inc_by_caller(k, f, d, c)) =>
              LET new == IF f \in DOMAIN records[k] THEN records[k][f] + d ELSE d
              IN /\ ret' = IntRet(new)
                 /\ DOMAIN records' = DOMAIN records
                 /\ DOMAIN records'[k] = DOMAIN records[k] \cup {f}
                 /\ records'[k][f] = new
                 /\ \A g \in DOMAIN records[k] \ {f} : records'[k][g] = records[k][g]
                 /\ \A j \in DOMAIN records \ {k} : records'[j] = records[j]
                 /\ DOMAIN modification_count' = DOMAIN modification_count
                 /\ modification_count'[k] = modification_count[k] + 1
                 /\ \A j \in DOMAIN modification_count \ {k} :
                        modification_count'[j] = modification_count[j]
                 /\ locks' = locks
                 /\ lock_queues' = lock_queues]_vars

\* The owner has incremented a field that existed: the call returned the
\* seeded value plus the delta, and the key's other field still holds the
\* seeded value.
SetOrIncByHolderReached ==
    /\ op = "set_or_inc_by_caller"
    /\ \E k \in DOMAIN records \cap DOMAIN locks, d \in Deltas :
           /\ ret = IntRet(SeedValue + d)
           /\ DOMAIN records[k] = Fields
           /\ \E f \in Fields :
                  /\ records[k][f] = SeedValue + d
                  /\ \A g \in Fields \ {f} : records[k][g] = SeedValue
           /\ modification_count[k] = 2

\* C12: when the owner of key k calls delete_by_caller(k, f, c) and the
\* Record keeps a field afterwards: if f exists the call returns True,
\* exactly f is removed, the modification count grows by one and the owner
\* and the queue stay; if f does not exist the call returns False and
\* nothing changes, the modification count included.
DeleteByHolderKeepsRecord ==
    [][\A k \in Keys, f \in Fields, c \in Callers :
          (/\ k \in DOMAIN locks /\ locks[k] = c
           /\ HasRecord(records, k)
           /\ DOMAIN records[k] # {f}
           /\ delete_by_caller(k, f, c)) =>
              IF f \in DOMAIN records[k]
              THEN /\ ret' = BoolRet(TRUE)
                   /\ DOMAIN records' = DOMAIN records
                   /\ DOMAIN records'[k] = DOMAIN records[k] \ {f}
                   /\ \A g \in DOMAIN records[k] \ {f} : records'[k][g] = records[k][g]
                   /\ \A j \in DOMAIN records \ {k} : records'[j] = records[j]
                   /\ DOMAIN modification_count' = DOMAIN modification_count
                   /\ modification_count'[k] = modification_count[k] + 1
                   /\ \A j \in DOMAIN modification_count \ {k} :
                          modification_count'[j] = modification_count[j]
                   /\ locks' = locks
                   /\ lock_queues' = lock_queues
              ELSE /\ ret' = BoolRet(FALSE)
                   /\ records' = records
                   /\ modification_count' = modification_count
                   /\ locks' = locks
                   /\ lock_queues' = lock_queues]_vars

\* The owner has deleted one of the two fields of the only key: the call
\* returned True and the Record lives on with one field and one more
\* modification.
DeleteByHolderKeepsRecordReached ==
    /\ op = "delete_by_caller"
    /\ ret = BoolRet(TRUE)
    /\ callers = Callers
    /\ \E k \in DOMAIN records :
           /\ Cardinality(DOMAIN records[k]) = 1
           /\ modification_count[k] = 2
           /\ k \in DOMAIN locks

\* C13: redundant requests change nothing: lock(k, c) by the caller that
\* already owns k returns None, and unlock(k) on a key that has no owner
\* returns None, with or without a Record; either step leaves records,
\* modification counts, owners and queues as they were, so any number of
\* repetitions does too.
RedundantRequestsAreNoOps ==
    [][\A k \in Keys :
          /\ \A c \in Callers :
                 (k \in DOMAIN locks /\ locks[k] = c /\ lock(k, c)) =>
                     /\ ret' = None
                     /\ records' = records
                     /\ modification_count' = modification_count
                     /\ locks' = locks
                     /\ lock_queues' = lock_queues
          /\ (k \notin DOMAIN locks /\ unlock(k)) =>
                 /\ ret' = None
                 /\ records' = records
                 /\ modification_count' = modification_count
                 /\ locks' = locks
                 /\ lock_queues' = lock_queues]_vars

\* A lock call has returned None, which only the owner's own request does,
\* on a key that has a waiter queued behind the owner.
OwnerRelockReached ==
    /\ op = "lock"
    /\ ret = None
    /\ \E k \in DOMAIN locks : Waiters(lock_queues, k) # <<>>

\* Records and modification counts have the same keys, no Record is empty
\* and no count is negative.
Existence ==
    /\ DOMAIN records = DOMAIN modification_count
    /\ \A k \in DOMAIN records :
           /\ DOMAIN records[k] # {}
           /\ modification_count[k] >= 0

\* C14: a key has a Record exactly when it has a modification count, every
\* Record has at least one field, and a modification count is never
\* negative and never decreases from one state to the next while the key's
\* Record exists.
ExistenceInvariant ==
    /\ []Existence
    /\ [][\A k \in DOMAIN records \cap DOMAIN records' :
              modification_count'[k] >= modification_count[k]]_vars

\* Of two seeded keys one has been destroyed with its count, and the other
\* has been modified once more.
RecordDestroyedAndCountedReached ==
    /\ callers = {"A"}
    /\ \E k \in Keys :
           /\ DOMAIN records = {k}
           /\ DOMAIN modification_count = {k}
           /\ modification_count[k] = 2

\* C15: no caller id occurs more than once in the waiter queue of any key,
\* whatever locks, hand-offs and repeated requests led to the state.
NoDuplicateWaiters ==
    \A k \in DOMAIN lock_queues :
        \A i, j \in 1..Len(lock_queues[k]) :
            lock_queues[k][i] = lock_queues[k][j] => i = j

\* "A" owned a key, handed it to "B" and has queued again behind "C", and
\* the last lock request was answered "wait".
FormerOwnerRequeuedReached ==
    /\ op = "lock"
    /\ ret = StrRet("wait")
    /\ \E k \in DOMAIN locks :
           /\ locks[k] = "B"
           /\ Waiters(lock_queues, k) = <<"C", "A">>

\* C16: lock_queues has an entry for a key only if that entry holds at least
\* one caller; in particular the key has no entry after unlock has handed
\* the lock to the last queued waiter.
QueueEntriesNonEmpty ==
    \A k \in DOMAIN lock_queues : lock_queues[k] # <<>>

\* C17: get(k, f) returns the stored value when the Record and the field
\* exist and None otherwise, the same whoever owns the key and whoever
\* waits for it, and leaves records, modification counts, owners and queues
\* as they were; a key without a Record reads as absent.
GetReadsWithoutEffect ==
    [][\A k \in Keys, f \in Fields :
          get(k, f) =>
              /\ ret' = IF k \in DOMAIN records /\ f \in DOMAIN records[k]
                        THEN IntRet(records[k][f])
                        ELSE None
              /\ records' = records
              /\ modification_count' = modification_count
              /\ locks' = locks
              /\ lock_queues' = lock_queues]_vars

\* get has returned a field's value from the only key while that key is
\* owned and has a waiter.
GetOfLockedKeyReached ==
    /\ op = "get"
    /\ ret.kind = "int"
    /\ \E k \in Keys :
           /\ DOMAIN records = {k}
           /\ k \in DOMAIN locks
           /\ Waiters(lock_queues, k) # <<>>

\* C18: for every n >= 0, top_n_keys(n) returns exactly the first
\* min(n, number of keys with a modification count) entries of the keys
\* ordered by count descending and then by key ascending, each rendered as
\* "<key>(<count>)" and no key twice, and leaves the state as it was.
TopNKeysRanksByCount ==
    [][\A n \in 0..MaxN :
          top_n_keys(n) =>
              LET mc == modification_count
                  l == ret'.val
                  total == Cardinality(DOMAIN mc)
              IN /\ ret'.kind = "list"
                 /\ Len(l) = IF n < total THEN n ELSE total
                 /\ \E ks \in [1..Len(l) -> DOMAIN mc] :
                        /\ \A i, j \in 1..Len(l) : ks[i] = ks[j] => i = j
                        /\ \A i \in 1..Len(l) :
                               /\ l[i] = ks[i] \o "(" \o ToString(mc[ks[i]]) \o ")"
                               /\ \A k \in DOMAIN mc \ {ks[j] : j \in 1..i} :
                                      \/ mc[ks[i]] > mc[k]
                                      \/ /\ mc[ks[i]] = mc[k]
                                         /\ \E a, b \in 1..Len(KeySeq) :
                                                a < b /\ KeySeq[a] = ks[i] /\ KeySeq[b] = k
                 /\ records' = records
                 /\ modification_count' = modification_count
                 /\ locks' = locks
                 /\ lock_queues' = lock_queues]_vars

\* top_n_keys has listed the later key first because it has the higher
\* count.
HigherCountFirstReached ==
    /\ op = "top_n_keys"
    /\ ret = ListRet(<<"k2(2)", "k1(1)">>)

\* C19: every key that has an owner has a Record; consequently, whenever
\* set_or_inc_by_caller passes its ownership guard the Record is there, and
\* the branch that would create a missing Record is never taken.
LocksOnlyOnRecords ==
    \A k \in DOMAIN locks : k \in DOMAIN records

\* Of two seeded keys the owner has destroyed "k1" by deleting its last
\* field, and "k2" is still owned.
OwnedKeyOutlivesDestroyedReached ==
    /\ op = "delete_by_caller"
    /\ ret = BoolRet(TRUE)
    /\ DOMAIN records = {"k2"}
    /\ DOMAIN locks = {"k2"}
    /\ callers = {"A"}

\* C20: a key that has a queued waiter has an owner, and the owner of a key
\* is never in that key's own queue.
QueueWellFormed ==
    \A k \in DOMAIN lock_queues :
        /\ lock_queues[k] # <<>> => k \in DOMAIN locks
        /\ k \in DOMAIN locks =>
               \A i \in 1..Len(lock_queues[k]) : lock_queues[k][i] # locks[k]

\* unlock has handed a key from "A" to "B", and "A" has queued behind the
\* new owner.
HandedOffThenQueuedReached ==
    \E k \in DOMAIN locks :
        /\ locks[k] = "B"
        /\ Waiters(lock_queues, k) = <<"A">>
====
